---- MODULE Spec2Model ----
(***************************************************************************)
(* Model of src/core/logconfig.py: the Log wrapper that configures a       *)
(* logger with a FileHandler on logs/app.log (mode 'w') and a colorized    *)
(* StreamHandler.  The logging registry, the handler chain walked by       *)
(* Logger.callHandlers, the per-handle file offsets of the open file and   *)
(* the two formatters are modelled as the calls in the source use them.    *)
(*                                                                         *)
(* Logger names are sequences of their dotted components; <<>> is the      *)
(* root logger.                                                            *)
(***************************************************************************)
EXTENDS Integers, Sequences, FiniteSets, TLC

VARIABLES
    run,        \* number of the current process run
    dir,        \* state of the directory logs/: "absent", "readonly", "writable"
    fileExists, \* does logs/app.log exist
    fileWritable, \* may logs/app.log be opened for writing
    file,       \* contents of logs/app.log: a sequence of cells
    loggers,    \* logging registry of this process: name -> [level, handlers]
    handlers,   \* every handler object created in this process, by id
          \* the Log object each calling module holds
    returned,   \* names of the loggers app_logger has returned in this run
    console,    \* chunks written to the console stream by this process
    last,       \* the last operation and its outcome
    nrec        \* number of records emitted in this run

vars == <<run, dir, fileExists, fileWritable, file, loggers, handlers, returned, console, last, nrec>>

---------------------------------------------------------------------------
(* Bounds *)

MaxRuns == 2
MaxCreates == 2
MaxRecords == 1

---------------------------------------------------------------------------
(* Severity levels of the logging module *)

NOTSET == 0
DEBUG == 10
INFO == 20
WARNING == 30
ERROR == 40
CRITICAL == 50

Levels == {DEBUG, INFO, WARNING, ERROR, CRITICAL}

LevelName(l) ==
    CASE l = DEBUG -> "DEBUG"
      [] l = INFO -> "INFO"
      [] l = WARNING -> "WARNING"
      [] l = ERROR -> "ERROR"
      [] l = CRITICAL -> "CRITICAL"

\* log_colors of the ColoredFormatter, as the escape codes colorlog emits
LogColor(l) ==
    CASE l = DEBUG -> "ESC[36m"
      [] l = INFO -> "ESC[32m"
      [] l = WARNING -> "ESC[33m"
      [] l = ERROR -> "ESC[31m"
      [] l = CRITICAL -> "ESC[1;31m"

ResetCode == "ESC[0m"

---------------------------------------------------------------------------
(* Names *)

Root == <<>>

\* __name__ of the module that defines Log, bound when __init__ is defined
DefaultLogName == <<"core", "logconfig">>

\* names a caller passes explicitly: the package of the default name, so that
\* both a parent and its dotted child are created
Names == {<<"core">>}

\* the modules that construct Log objects
Callers == {<<"modA">>, <<"modB">>}

RECURSIVE Join(_)
Join(n) ==
    IF n = <<>> THEN "root"
    ELSE IF Len(n) = 1 THEN n[1]
    ELSE Join(SubSeq(n, 1, Len(n) - 1)) \o "." \o n[Len(n)]

---------------------------------------------------------------------------
(* Time stamps *)

MonthAbbr == <<"Jan", "Feb", "Mar", "Apr", "May", "Jun",
               "Jul", "Aug", "Sep", "Oct", "Nov", "Dec">>

Pad2(n) == IF n < 10 THEN "0" \o ToString(n) ELSE ToString(n)

Pad3(n) == IF n < 10 THEN "00" \o ToString(n)
           ELSE IF n < 100 THEN "0" \o ToString(n) ELSE ToString(n)

ClockPart(t) == Pad2(t.h) \o ":" \o Pad2(t.mi) \o ":" \o Pad2(t.s)

\* strftime("%Y/%b/%d %H:%M:%S")
StrftimeStream(t) ==
    ToString(t.Y) \o "/" \o MonthAbbr[t.mon] \o "/" \o Pad2(t.D) \o " " \o ClockPart(t)

\* Formatter.formatTime without datefmt: "%Y-%m-%d %H:%M:%S" then "%s,%03d"
StrftimeDefault(t) ==
    ToString(t.Y) \o "-" \o Pad2(t.mon) \o "-" \o Pad2(t.D) \o " " \o ClockPart(t)
        \o "," \o Pad3(t.ms)

\* datefmt of each formatter: the stream formatter is given one, the file formatter none
FileAsctime(t) == StrftimeDefault(t)

StreamAsctime(t) == StrftimeStream(t)

---------------------------------------------------------------------------
(* Formatters *)

TracebackText == <<"Traceback (most recent call last):", "\n",
                   "ZeroDivisionError: division by zero">>

ExcPart(r) == IF r.exc THEN <<"\n">> \o TracebackText ELSE <<>>

\* Log.file_formatter.format(record)
FileFormat(r) ==
    <<LevelName(r.levelno), ":    ", FileAsctime(r.created), " - ", Join(r.name),
      " - ", r.msg>> \o ExcPart(r)

\* Log.stream_formatter.format(record)
StreamFormat(r) ==
    <<LogColor(r.levelno), LevelName(r.levelno), ResetCode, ":    [",
      StreamAsctime(r.created), ",", "ESC[1;90m", Pad3(r.created.ms), "ESC[0m",
      "] - {{", "ESC[38;2;235;9;220m", Join(r.name), "ESC[0m", "}} @",
      LogColor(r.levelno), r.msg>> \o ExcPart(r) \o <<ResetCode>>

Terminator == "\n"

---------------------------------------------------------------------------
(* The logging registry *)

NewLogger == [level |-> NOTSET, handlers |-> <<>>]

\* the root logger of a fresh process: level WARNING, no handlers
FreshRegistry == (Root :> [level |-> WARNING, handlers |-> <<>>])

\* logging.getLogger(name): the registered logger, registered first if new
GetLogger(reg, n) == IF n \in DOMAIN reg THEN reg ELSE reg @@ (n :> NewLogger)

\* the nearest registered proper ancestor of n in the dotted hierarchy
Parent(reg, n) ==
    LET ks == {k \in 0..(Len(n) - 1) : SubSeq(n, 1, k) \in DOMAIN reg}
        k == CHOOSE x \in ks : \A y \in ks : y <= x
    IN SubSeq(n, 1, k)

\* Logger.getEffectiveLevel
RECURSIVE EffectiveLevel(_, _)
EffectiveLevel(reg, n) ==
    IF reg[n].level # NOTSET THEN reg[n].level
    ELSE IF n = Root THEN NOTSET
    ELSE EffectiveLevel(reg, Parent(reg, n))

\* the loggers Logger.callHandlers visits: n, then each parent (propagate is
\* left True on every logger)
RECURSIVE Chain(_, _)
Chain(reg, n) == IF n = Root THEN <<n>> ELSE <<n>> \o Chain(reg, Parent(reg, n))

RECURSIVE ChainHandlers(_, _)
ChainHandlers(reg, ch) ==
    IF ch = <<>> THEN <<>>
    ELSE reg[Head(ch)].handlers \o ChainHandlers(reg, Tail(ch))

---------------------------------------------------------------------------
(* The file logs/app.log *)

\* a byte range no handle has written: reads as NUL
Hole == [run |-> 0, rec |-> 0, tok |-> "NUL"]

\* open(..., mode='w') succeeds if logs/ exists and app.log is there and
\* writable, or is not there and logs/ allows creating it
CanOpenW ==
    /\ dir # "absent"
    /\ IF fileExists THEN fileWritable ELSE dir = "writable"

KeepOnOpen(content) == content

\* contents of the file after open(..., mode='w')
TruncateOnOpen(content) == <<>>

\* write d at offset p of f; a write past the end leaves a hole
WriteAt(f, p, d) ==
    LET padded == IF Len(f) < p THEN f \o [i \in 1..(p - Len(f)) |-> Hole] ELSE f
        end == IF Len(padded) < p + Len(d) THEN p + Len(d) ELSE Len(padded)
    IN [i \in 1..end |-> IF i > p /\ i <= p + Len(d) THEN d[i - p] ELSE padded[i]]

Cells(r, toks) == [i \in 1..Len(toks) |-> [run |-> run, rec |-> r.id, tok |-> toks[i]]]

---------------------------------------------------------------------------
(* Handlers *)

FileHandlerObj == [kind |-> "file", level |-> DEBUG, pos |-> 0]

StreamHandlerObj == [kind |-> "stream", level |-> DEBUG, pos |-> 0]

\* Handler.handle(record) for handler id h on the state st = [file, handlers, console]
Handle(st, h, r) ==
    IF st.handlers[h].kind = "file"
    THEN LET d == Cells(r, FileFormat(r) \o <<Terminator>>)
             p == st.handlers[h].pos
         IN [st EXCEPT !.file = WriteAt(st.file, p, d),
                       !.handlers[h].pos = p + Len(d)]
    ELSE [st EXCEPT !.console = Append(st.console,
                        [rec |-> r.id, toks |-> StreamFormat(r) \o <<Terminator>>])]

\* Logger.callHandlers: each handler of the chain whose level admits the record
RECURSIVE CallHandlers(_, _, _)
CallHandlers(st, hs, r) ==
    IF hs = <<>> THEN st
    ELSE LET h == Head(hs)
             st1 == IF r.levelno >= st.handlers[h].level THEN Handle(st, h, r) ELSE st
         IN CallHandlers(st1, Tail(hs), r)

Admitted(hs, r, kind) ==
    {i \in 1..Len(hs) : handlers[hs[i]].kind = kind /\ r.levelno >= handlers[hs[i]].level}

\* the loggers of the chain one of whose handlers handles r
Via(reg, n, r) ==
    LET ch == Chain(reg, n)
    IN {ch[i] : i \in {j \in 1..Len(ch) :
            \E k \in 1..Len(reg[ch[j]].handlers) :
                r.levelno >= handlers[reg[ch[j]].handlers[k]].level}}

---------------------------------------------------------------------------
(* Records *)

\* time.time() at the creation of the i-th record of a run
Clock(i) ==
    [Y |-> 2025 + (i % 2), mon |-> ((7 * i) % 12) + 1, D |-> ((13 * i) % 28) + 1,
     h |-> (9 * i) % 24, mi |-> (7 * i) % 60, s |-> (31 * i) % 60,
     ms |-> (471 * i) % 1000]

Messages == {"low disk"}

NoRecord == [id |-> 0, name |-> Root, levelno |-> NOTSET, msg |-> "", exc |-> FALSE,
             created |-> Clock(0)]

NoOp == [op |-> "start", status |-> "", name |-> Root, caller |-> Root,
         given |-> FALSE, ret |-> FALSE, dropped |-> 0,
         rec |-> NoRecord, nfile |-> 0, nstream |-> 0, via |-> {}]

---------------------------------------------------------------------------
(* Initial state: a first process run, before any call *)

Init ==
    /\ run = 1
    /\ dir \in {"absent", "writable"}
    /\ fileExists = FALSE
    /\ fileWritable = FALSE
    /\ file = <<>>
    /\ loggers = FreshRegistry
    /\ handlers = <<>>
    /\ returned = {}
    /\ console = <<>>
    /\ last = NoOp
    /\ nrec = 0

---------------------------------------------------------------------------
(* Log.__init__ *)

\* Log(log_name) when given, Log() otherwise: the object holds log_name and
\* nothing else, and no method changes it
LogInit(given, n) == [log_name |-> IF given THEN n ELSE DefaultLogName, given |-> given]

\* the Log objects a module can hold
LogObjects == {LogInit(TRUE, n) : n \in Names} \cup {LogInit(FALSE, Root)}

---------------------------------------------------------------------------
(* Log.app_logger *)

\* getLogger(self.log_name) and setLevel(DEBUG)
Configured(n) == [GetLogger(loggers, n) EXCEPT ![n].level = DEBUG]

Called(c, self, status) ==
    [NoOp EXCEPT !.op = "create", !.status = status, !.name = self.log_name,
                 !.caller = c, !.given = self.given]

\* as AppLoggerRaise, with the error caught and the logger returned
AppLoggerSwallow(c, self) ==
    /\ loggers' = Configured(self.log_name)
    /\ returned' = returned \cup {self.log_name}
    /\ last' = [Called(c, self, "ok") EXCEPT !.ret = TRUE]
    /\ UNCHANGED <<run, dir, fileExists, fileWritable, file, handlers, console, nrec>>

\* as AppLoggerRaise, with the stream handler attached before the file is opened
AppLoggerRaiseAfterStream(c, self) ==
    /\ Len(handlers) < 2 * MaxCreates
    /\ handlers' = Append(handlers, StreamHandlerObj)
    /\ loggers' = [Configured(self.log_name) EXCEPT
                      ![self.log_name].handlers = Append(@, Len(handlers) + 1)]
    /\ last' = Called(c, self, "OSError")
    /\ UNCHANGED <<run, dir, fileExists, fileWritable, file, returned, console, nrec>>

\* FileHandler(...) raises: nothing catches it, and the statements after it
\* are not executed
AppLoggerRaise(c, self) ==
    /\ loggers' = Configured(self.log_name)
    /\ last' = Called(c, self, "OSError")
    /\ UNCHANGED <<run, dir, fileExists, fileWritable, file, handlers, returned, console, nrec>>

\* both handlers are created and attached, and the logger is returned
AppLoggerReturn(c, self) ==
    LET n == self.log_name
        fh == Len(handlers) + 1
        sh == Len(handlers) + 2
    IN /\ Len(handlers) < 2 * MaxCreates
       /\ file' = TruncateOnOpen(file)
       /\ fileExists' = TRUE
       /\ fileWritable' = (IF fileExists THEN fileWritable ELSE TRUE)
       /\ handlers' = handlers \o <<FileHandlerObj, StreamHandlerObj>>
       /\ loggers' = [Configured(n) EXCEPT ![n].handlers = @ \o <<fh, sh>>]
       /\ returned' = returned \cup {n}
       /\ last' = [Called(c, self, "ok") EXCEPT !.ret = TRUE, !.dropped = Len(file)]
       /\ UNCHANGED <<run, dir, console, nrec>>

\* module c calls app_logger on the Log object self
AppLogger(c, self) ==
    IF CanOpenW THEN AppLoggerReturn(c, self) ELSE AppLoggerRaise(c, self)

---------------------------------------------------------------------------
(* Emitting records on a returned logger *)

\* Logger._log: the record is made, then handled if the logger is enabled for it
LogRecord(n, lvl, m, e) ==
    LET r == [id |-> nrec + 1, name |-> n, levelno |-> lvl, msg |-> m, exc |-> e,
              created |-> Clock(nrec + 1)]
        hs == ChainHandlers(loggers, Chain(loggers, n))
        st0 == [file |-> file, handlers |-> handlers, console |-> console]
        on == lvl >= EffectiveLevel(loggers, n)
        st == IF on THEN CallHandlers(st0, hs, r) ELSE st0
    IN /\ nrec < MaxRecords
       /\ n \in returned
       /\ nrec' = nrec + 1
       /\ file' = st.file
       /\ handlers' = st.handlers
       /\ console' = st.console
       /\ last' = [NoOp EXCEPT !.op = "emit", !.status = "ok", !.name = n, !.rec = r,
                     !.nfile = IF on THEN Cardinality(Admitted(hs, r, "file")) ELSE 0,
                     !.nstream = IF on THEN Cardinality(Admitted(hs, r, "stream")) ELSE 0,
                     !.via = IF on THEN Via(loggers, n, r) ELSE {}]
       /\ UNCHANGED <<run, dir, fileExists, fileWritable, loggers, returned>>

\* logger.debug / info / warning / error / critical
Emit(n, lvl, m) == LogRecord(n, lvl, m, FALSE)

ExceptionLevelCritical == CRITICAL

\* the level Logger.exception logs at
ExceptionLevel == ERROR

\* logger.exception(msg) inside an except block: exc_info is attached
Exception(n) == LogRecord(n, ExceptionLevel, "unknown error", TRUE)

---------------------------------------------------------------------------
(* The environment of the process *)

\* logs/ is created
MkDir ==
    /\ dir = "absent"
    /\ dir' = "writable"
    /\ last' = [NoOp EXCEPT !.op = "env"]
    /\ UNCHANGED <<run, fileExists, fileWritable, file, loggers, handlers, returned, console, nrec>>

\* the write permission on logs/ is removed or granted
ChmodDir ==
    /\ dir # "absent"
    /\ dir' = IF dir = "writable" THEN "readonly" ELSE "writable"
    /\ last' = [NoOp EXCEPT !.op = "env"]
    /\ UNCHANGED <<run, fileExists, fileWritable, file, loggers, handlers, returned, console, nrec>>

\* the write permission on logs/app.log is removed or granted
ChmodFile ==
    /\ fileExists
    /\ fileWritable' = ~fileWritable
    /\ last' = [NoOp EXCEPT !.op = "env"]
    /\ UNCHANGED <<run, dir, fileExists, file, loggers, handlers, returned, console, nrec>>

\* the process exits and the program is run again: the file stays, the
\* registry and the handlers of the old process are gone
Rerun ==
    /\ run < MaxRuns
    /\ run' = run + 1
    /\ loggers' = FreshRegistry
    /\ handlers' = <<>>
    /\ returned' = {}
    /\ console' = <<>>
    /\ nrec' = 0
    /\ last' = [NoOp EXCEPT !.op = "rerun"]
    /\ UNCHANGED <<dir, fileExists, fileWritable, file>>

---------------------------------------------------------------------------

Next ==
    \/ \E c \in Callers, self \in LogObjects : AppLogger(c, self)
    \/ \E n \in returned, lvl \in Levels, m \in Messages : Emit(n, lvl, m)
    \/ \E n \in returned : Exception(n)
    \/ MkDir
    \/ ChmodDir
    \/ ChmodFile
    \/ Rerun

Spec == Init /\ [][Next]_vars

---------------------------------------------------------------------------
(* Properties *)

\* the handlers of kind k attached to logger n itself
Own(n, k) == {i \in 1..Len(loggers[n].handlers) : handlers[loggers[n].handlers[i]].kind = k}

\* the console chunks and the file cells of record id
ChunksOf(id) == {i \in 1..Len(console) : console[i].rec = id}

CellsOf(id) == {i \in 1..Len(file) : file[i].run = run /\ file[i].rec = id}

Emitted == last.op = "emit"

Created == last.op = "create" /\ last.status = "ok"

CreateFailed == last.op = "create" /\ last.status = "OSError"

\* C1: after app_logger has been called twice for one name, the logger still
\* has one file handler and one console handler, and a record emitted on it
\* (and handled by no other logger) is written once to each sink.
C1_NoDuplicateHandlers ==
    /\ \A n \in returned : Cardinality(Own(n, "file")) = 1 /\ Cardinality(Own(n, "stream")) = 1
    /\ (Emitted /\ last.via = {last.name}) => (last.nfile = 1 /\ last.nstream = 1)

\* C2: a record of any of the five severities emitted on a returned logger
\* is written exactly once by a file handler and exactly once to the console.
C2_ExactlyOneLinePerSink ==
    (Emitted /\ ~last.rec.exc /\ last.rec.levelno \in Levels) =>
        /\ last.nfile = 1
        /\ last.nstream = 1
        /\ Cardinality(ChunksOf(last.rec.id)) = 1

\* C3 as stated: app_logger called while logs/ is absent or not writable
\* raises the filesystem error and returns no logger.
C3_FailsIfDirUnusable ==
    (last.op = "create" /\ dir \in {"absent", "readonly"}) =>
        (last.status = "OSError" /\ ~last.ret)

\* C3 amended: app_logger called while logs/ is absent, or while app.log does
\* not exist and logs/ is not writable, raises the filesystem error, returns
\* no logger and leaves the set of returned loggers as it was.
C3_FailsIfCannotCreate ==
    [][(last'.op = "create" /\ (dir = "absent" \/ (dir = "readonly" /\ ~fileExists)))
        => (last'.status = "OSError" /\ ~last'.ret /\ returned' = returned)]_vars

C3_Witness == CreateFailed /\ dir = "readonly" /\ ~fileExists

\* C4: once app_logger has succeeded in a run, the file holds nothing written
\* by an earlier run.
C4_NoEarlierRunContent ==
    (\E h \in 1..Len(handlers) : handlers[h].kind = "file") =>
        \A i \in 1..Len(file) : file[i].run \in {0, run}

C4_Witness == run > 1 /\ Created /\ Len(handlers) = 2 /\ last.dropped > 0

\* C5: both sinks render the time stamp of a record as YYYY/Mon/DD HH:MM:SS.
C5_SameTimestampFormat ==
    (Emitted /\ last.nfile > 0 /\ last.nstream > 0) =>
        /\ \E i \in ChunksOf(last.rec.id) :
              \E j \in 1..Len(console[i].toks) :
                  console[i].toks[j] = StrftimeStream(last.rec.created)
        /\ \E i \in CellsOf(last.rec.id) : file[i].tok = StrftimeStream(last.rec.created)

\* C6: a Log object constructed without log_name names its logger after the
\* module that constructed it.
C6_DefaultIsCallerModule ==
    (last.op = "create" /\ ~last.given) => last.name = last.caller

\* the traceback is in the console chunk and in the file cells of record id
TracebackDelivered(id) ==
    /\ \E i \in ChunksOf(id) : \A t \in 1..Len(TracebackText) :
          \E j \in 1..Len(console[i].toks) : console[i].toks[j] = TracebackText[t]
    /\ \A t \in 1..Len(TracebackText) : \E i \in CellsOf(id) : file[i].tok = TracebackText[t]

LevelDelivered(id, l) ==
    /\ \E i \in ChunksOf(id) : console[i].toks[2] = LevelName(l)
    /\ \E i \in CellsOf(id) : file[i].tok = LevelName(l)

\* C7 as stated: logger.exception yields a CRITICAL record with the traceback,
\* delivered to both sinks.
C7_ExceptionIsCritical ==
    (Emitted /\ last.rec.exc) =>
        /\ last.rec.levelno = CRITICAL
        /\ LevelDelivered(last.rec.id, CRITICAL)
        /\ TracebackDelivered(last.rec.id)

\* C7 amended: logger.exception yields an ERROR record with the traceback,
\* delivered to both sinks.
C7_ExceptionIsError ==
    (Emitted /\ last.rec.exc) =>
        /\ last.rec.levelno = ERROR
        /\ last.nfile > 0 /\ last.nstream > 0
        /\ LevelDelivered(last.rec.id, ERROR)
        /\ TracebackDelivered(last.rec.id)

C7_Witness == Emitted /\ last.rec.exc /\ last.nfile > 0 /\ last.nstream > 0

\* C8: an app_logger call that fails leaves every logger's handler list, and
\* the handlers themselves, as they were before the call.
C8_FailedCreateAttachesNothing ==
    [][(last'.op = "create" /\ last'.status = "OSError") =>
          /\ handlers' = handlers
          /\ \A n \in DOMAIN loggers' :
                loggers'[n].handlers = (IF n \in DOMAIN loggers THEN loggers[n].handlers
                                        ELSE <<>>)]_vars

C8_Witness == CreateFailed /\ Len(loggers[last.name].handlers) > 0

\* C9: every successful app_logger call leaves logs/app.log empty, whatever
\* it held before, records of the same process included.
C9_CreateTruncates == Created => (file = <<>> /\ fileExists)

C9_Witness == run = 1 /\ Created /\ last.dropped > 0 /\ Len(handlers) > 2

\* C10: when every name has been created at most once, a record emitted on a
\* logger is handled by that logger's own two handlers only.
C10_Isolated ==
    (Emitted /\ \A n \in DOMAIN loggers : Len(loggers[n].handlers) <= 2) =>
        /\ last.via = {last.name}
        /\ last.nfile = 1
        /\ last.nstream = 1

====
